---------------------------- MODULE Spec2Model ----------------------------
(***************************************************************************)
(* A model of the micro-GA engine of loan-payment-optimizer                *)
(* (src/micro-ga.c, src/micro-ga.h) and of the part of its caller          *)
(* (src/loan-optimize.c) that drives it.                                   *)
(*                                                                         *)
(* Numbers.  rand()/(RAND_MAX+1) is the rational k/RandDen, k in           *)
(* 0..RAND_MAX, and is kept as its numerator k.  A float (a gene, a rate,  *)
(* a fitness) is a multiple of 1/FloatDen and is kept as its numerator; a  *)
(* double that is stored into a float is rounded to the nearest multiple   *)
(* (ties to even), as the conversion does.  The unevaluated fitness -1.0   *)
(* is therefore the numerator -FloatDen.                                   *)
(*                                                                         *)
(* Slots.  C indexes the population 0..population_size-1; the sequence     *)
(* individuals is indexed 1..population_size, so C slot x is               *)
(* individuals[x + 1].  The values of n, pcount and parents[] are the C    *)
(* values.                                                                 *)
(***************************************************************************)
EXTENDS Integers, Sequences, FiniteSets, TLC

\* ------------------------------------------------------------------ bounds
\* Largest population_size a caller configures, and the largest number of
\* genes (population_size * genome_size) of a population.
MaxPop == 3
MaxGenes == 4
\* rand() returns 0..RAND_MAX.
RAND_MAX == 3
\* Floats are multiples of 1/FloatDen.
FloatDen == 2

RandDen == RAND_MAX + 1
Draws == 0 .. RAND_MAX
\* unsigned int arithmetic wraps; the width is taken as 16 bits, 2^32 being
\* beyond TLC's integers.
UIntMod == 65536

NULL == "NULL"
WILD == "WILD"
BLK == "BLK"

\* ------------------------------------------------------------- arithmetic
\* a/b rounded to the nearest integer, ties to even (a >= 0, b > 0).
RoundDiv(a, b) ==
    LET q == a \div b
        r == a % b
    IN  IF 2 * r < b THEN q
        ELSE IF 2 * r > b THEN q + 1
        ELSE IF q % 2 = 0 THEN q ELSE q + 1

\* The double k/RandDen stored into a float.
ToFloat(k) == RoundDiv(k * FloatDen, RandDen)

GeneVals == 0 .. FloatDen
Unevaluated == 0 - FloatDen

RECURSIVE SumSeq(_)
SumSeq(s) == IF s = << >> THEN 0 ELSE Head(s) + SumSeq(Tail(s))

\* --------------------------------------------------- objective interface
\* The caller's callbacks.  fitness_fn assigns a finite non-negative
\* fitness, here the sum of the genes (the objective of the specification's
\* end-to-end scenario).  acceptance_fn vetoes a seeded candidate, here the
\* one whose first gene is 1.0 (the whole payment to the first loan).
FitnessFns == {NULL, "fitness_sum"}
AcceptanceFns == {NULL, "accept_below_one"}

fitness_fn(genes) == SumSeq(genes)

acceptance_fn(genes) == IF genes[1] < FloatDen THEN 1 ELSE 0

\* --------------------------------------------------------- configuration
\* micro_ga_config_t as callers fill it in; rates and threshold are float
\* numerators (0 is 0.0, 1 is 1/FloatDen), -1 stands for a negative value.
Rates == {-1, 0, 1}
Threshs == {-1, 0, 1}

\* The default configuration of a given size: never mutate, blend whenever
\* the draw is positive, threshold 0, no acceptance filter.
DefaultConfig(ps, gs) ==
    [ population_size |-> ps,
      genome_size     |-> gs,
      mutation_rate   |-> 0,
      crossover_rate  |-> 0,
      fitness_thresh  |-> 0,
      fitness_fn      |-> "fitness_sum",
      acceptance_fn   |-> NULL ]

\* The sizes of the populations callers ask for.
Sizes ==
    { s \in (1 .. MaxPop) \X (1 .. MaxGenes) : s[1] * s[2] <= MaxGenes }

\* The configurations that pass the check: the default of every size, and
\* the default with one field set to another value.
ValidConfigs ==
    UNION { LET c == DefaultConfig(s[1], s[2])
            IN  { c,
                  [ c EXCEPT !.mutation_rate = 1 ],
                  [ c EXCEPT !.fitness_thresh = 1 ],
                  [ c EXCEPT !.acceptance_fn = "accept_below_one" ] }
          : s \in Sizes }

\* Configurations that fail it, one per condition of the check.
InvalidConfigs ==
    LET c == DefaultConfig(MaxPop, 1)
    IN  { [ c EXCEPT !.population_size = 0 ],
          [ c EXCEPT !.genome_size = 0 ],
          [ c EXCEPT !.fitness_fn = NULL ],
          [ c EXCEPT !.mutation_rate = -1 ],
          [ c EXCEPT !.crossover_rate = -1 ],
          [ c EXCEPT !.fitness_thresh = -1 ] }

Configs == ValidConfigs \cup InvalidConfigs

\* A check that lets a negative threshold through.
ConfigInvalidNoThresh(config) ==
    \/ config.population_size = 0
    \/ config.genome_size = 0
    \/ config.fitness_fn = NULL
    \/ config.mutation_rate < 0
    \/ config.crossover_rate < 0

\* The check of micro_ga_init on the configuration.
ConfigInvalid(config) ==
    \/ config.population_size = 0
    \/ config.genome_size = 0
    \/ config.fitness_fn = NULL
    \/ config.mutation_rate < 0
    \/ config.crossover_rate < 0
    \/ config.fitness_thresh < 0

\* ------------------------------------------------------------------ state
VARIABLES
    ga,           \* the caller's micro_ga_t
    individuals,  \* the contents of the block ga.individuals points to
    blk,          \* that block: "none", "live" or "freed"
    pc,           \* "idle", "seed" (population_init), "select" (the
                  \* roulette loop of micro_ga_evolve), "aborted" (a failed
                  \* assert), "crashed" (a memory fault)
    n,            \* the loop counter n of the running function
    pcount,       \* micro_ga_evolve's pcount
    parents,      \* micro_ga_evolve's parents[] (C index k is parents[k+1])
    tfitness,     \* micro_ga_evolve's tfitness
    prob,         \* micro_ga_evolve's prob[]: prob[x] is prob[x+1]/tfitness
    scratch,      \* the allocation of the running function that returned
                  \* NULL, or "none"
    reported,     \* "Could not allocate memory" was written by this call
    op,           \* the entry point called last
    rc,           \* what it returned: "0", "-1", "-2", or "none"
    fault         \* the invalid memory access the call made, or "none"

engine == << ga, individuals, blk >>
locals == << n, pcount, parents, tfitness, prob >>
vars == << ga, individuals, blk, pc, n, pcount, parents, tfitness, prob, scratch,
           reported, op, rc, fault >>

\* A micro_ga_t filled with zero bytes.
ZeroGa ==
    [ ready |-> 0, population_size |-> 0, genome_size |-> 0,
      mutation_rate |-> 0, crossover_rate |-> 0, fitness_thresh |-> 0,
      fitness_fn |-> NULL, acceptance_fn |-> NULL, individuals |-> NULL ]

\* A micro_ga_t in automatic storage, as main declares it: its bytes are
\* whatever the stack held.  ready is 1 or not; the pointers are not valid.
GarbageGa(rdy) ==
    [ ready |-> rdy, population_size |-> MaxPop, genome_size |-> MaxGenes,
      mutation_rate |-> 0, crossover_rate |-> 0, fitness_thresh |-> 0,
      fitness_fn |-> WILD, acceptance_fn |-> WILD, individuals |-> WILD ]

\* The engine is Ready: micro_ga_init succeeded and micro_ga_destroy has not
\* run since.
Ready == ga.ready = 1 /\ ga.individuals = BLK /\ blk = "live"

Init ==
    /\ ga \in {ZeroGa, GarbageGa(0), GarbageGa(1)}
    /\ individuals = << >>
    /\ blk = "none"
    /\ pc = "idle"
    /\ n = 0
    /\ pcount = 0
    /\ parents = << >>
    /\ tfitness = 0
    /\ prob = << >>
    /\ scratch = "none"
    /\ reported = FALSE
    /\ op = "none"
    /\ rc = "none"
    /\ fault = "none"

\* No evolve is running: its locals hold nothing.
NoLocals ==
    /\ n' = 0
    /\ pcount' = 0
    /\ parents' = << >>
    /\ tfitness' = 0
    /\ prob' = << >>

\* ---------------------------------------------------------- micro_ga_init
\* The population as micro_ga_init allocates it.
FreshPopulation(config) ==
    [ i \in 1 .. config.population_size |->
        [ genome_size |-> config.genome_size,
          fitness     |-> Unevaluated,
          genes       |-> [ g \in 1 .. config.genome_size |-> 0 ] ] ]

\* ga after the memset and the copy from config.
CopiedGa(config, ptr) ==
    [ ready |-> 0,
      population_size |-> config.population_size,
      genome_size     |-> config.genome_size,
      mutation_rate   |-> config.mutation_rate,
      crossover_rate  |-> config.crossover_rate,
      fitness_thresh  |-> config.fitness_thresh,
      fitness_fn      |-> config.fitness_fn,
      acceptance_fn   |-> config.acceptance_fn,
      individuals     |-> ptr ]

InitAllocs == {"none", "individuals", "genes"}

\* The calls of micro_ga_init: a NULL pointer argument, or a configuration
\* and, when it passes the check, the calloc that fails (if any).
InitCalls ==
    { << "null", DefaultConfig(MaxPop, 1), "none" >> }
    \cup { << "ok", c, "none" >> : c \in Configs }
    \cup { << "ok", DefaultConfig(s[1], s[2]), a >> :
             s \in Sizes, a \in InitAllocs }

\* The calls a caller repeats on an engine that already owns a block: one
\* that passes the check, one that fails it, one whose calloc fails.
ReinitCalls ==
    { << "ok", DefaultConfig(MaxPop, 1), "none" >>,
      << "ok", [ DefaultConfig(MaxPop, 1) EXCEPT !.population_size = 0 ], "none" >>,
      << "ok", DefaultConfig(MaxPop, 1), "individuals" >> }

\* micro_ga_init up to the call of population_init.  args tells whether
\* the pointers passed are NULL; alloc names the calloc that fails.
micro_ga_init(args, config, alloc) ==
    /\ pc = "idle"
    /\ op' = "init"
    /\ NoLocals
    /\ reported' = FALSE
    /\ fault' = "none"
    /\ IF args # "ok"
       THEN /\ rc' = "-1"
            /\ scratch' = "none"
            /\ UNCHANGED << engine, pc >>
       ELSE IF ConfigInvalid(config)
       THEN /\ rc' = "-2"
            /\ scratch' = "none"
            /\ UNCHANGED << engine, pc >>
       ELSE IF alloc = "individuals"
       THEN /\ ga' = CopiedGa(config, NULL)
            /\ individuals' = << >>
            /\ blk' = "none"
            /\ rc' = "-1"
            /\ scratch' = alloc
            /\ UNCHANGED pc
       ELSE /\ ga' = CopiedGa(config, BLK)
            /\ individuals' = FreshPopulation(config)
            /\ blk' = "live"
            /\ rc' = "none"
            /\ pc' = "seed"
            /\ scratch' = alloc

\* A loop that goes on to the next slot whatever the filter said.
SeedNextNoRetry(k, acceptable) == (k + 1) % UIntMod

\* population_init: what n becomes after one pass of the loop body and the
\* loop's n++ (n is an unsigned int).
SeedNext(k, acceptable) ==
    IF acceptable = 0 THEN (((k - 1) % UIntMod) + 1) % UIntMod
    ELSE (k + 1) % UIntMod

\* The filter's verdict on a candidate; an absent filter accepts.
Acceptable(g, genes) ==
    IF g.acceptance_fn = NULL THEN 1 ELSE acceptance_fn(genes)

\* One pass of population_init's loop: draw the genes of slot n, ask the
\* filter.  A gene buffer that calloc did not provide is written through.
population_init ==
    /\ pc = "seed"
    /\ n < ga.population_size
    /\ UNCHANGED << ga, blk, pcount, parents, tfitness, prob, scratch, reported,
                    op, rc >>
    /\ IF scratch = "genes"
       THEN /\ pc' = "crashed"
            /\ fault' = "null_deref"
            /\ UNCHANGED << individuals, n >>
       ELSE \E d \in [ 1 .. individuals[n + 1].genome_size -> Draws ] :
              LET genes == [ g \in DOMAIN d |-> ToFloat(d[g]) ]
              IN  /\ individuals' =
                         [ individuals EXCEPT ![n + 1].genes = genes ]
                  /\ n' = SeedNext(n, Acceptable(ga, genes))
                  /\ UNCHANGED << pc, fault >>

\* population_init returns; micro_ga_init sets ready and returns 0.
micro_ga_init_return ==
    /\ pc = "seed"
    /\ ~ (n < ga.population_size)
    /\ ga' = [ ga EXCEPT !.ready = 1 ]
    /\ rc' = "0"
    /\ pc' = "idle"
    /\ n' = 0
    /\ UNCHANGED << individuals, blk, pcount, parents, tfitness, prob, scratch,
                    reported, op, fault >>

\* ------------------------------------------------------- micro_ga_destroy
\* What freeing the population through ga.individuals does.  A pointer that
\* calloc never returned makes the frees undefined: the process dies in
\* the allocator or the call goes on.
micro_ga_destroy(args, outcome) ==
    /\ pc = "idle"
    /\ op' = "destroy"
    /\ NoLocals
    /\ reported' = FALSE
    /\ scratch' = "none"
    /\ UNCHANGED individuals
    /\ IF args # "ok" \/ ga.ready # 1
       THEN /\ rc' = "-1"
            /\ fault' = "none"
            /\ UNCHANGED << ga, blk, pc >>
       ELSE IF ga.individuals = NULL
       THEN /\ ga' = [ ga EXCEPT !.ready = 0 ]
            /\ rc' = "0"
            /\ fault' = "none"
            /\ UNCHANGED << blk, pc >>
       ELSE IF ga.individuals = BLK /\ blk = "live"
       THEN /\ ga' = [ ga EXCEPT !.ready = 0 ]
            /\ blk' = "freed"
            /\ rc' = "0"
            /\ fault' = "none"
            /\ UNCHANGED pc
       ELSE /\ fault' = "wild_pointer"
            /\ UNCHANGED blk
            /\ IF outcome = "trap"
               THEN /\ pc' = "crashed"
                    /\ rc' = "none"
                    /\ UNCHANGED ga
               ELSE /\ ga' = [ ga EXCEPT !.ready = 0 ]
                    /\ rc' = "0"
                    /\ UNCHANGED pc

\* ------------------------------------------------------------------ sort
\* The permutations of 1..k, tabulated for the population sizes in use.
Perms(k) == { p \in [ 1 .. k -> 1 .. k ] : \A i, j \in 1 .. k : i # j => p[i] # p[j] }

PermTable == [ k \in 0 .. MaxPop |-> Perms(k) ] @@ << >>

\* genome_compare: -1, 0 or 1 by fitness.
genome_compare(genome1, genome2) ==
    IF genome1.fitness < genome2.fitness THEN -1
    ELSE IF genome1.fitness > genome2.fitness THEN 1
    ELSE 0

\* What qsort may leave: any arrangement of the same genomes that is in
\* order by genome_compare (qsort does not say where equal elements go).
SortedPerms(inds) ==
    { s \in { [ i \in DOMAIN inds |-> inds[p[i]] ] : p \in PermTable[Len(inds)] } :
        \A i \in 1 .. Len(s) - 1 : genome_compare(s[i], s[i + 1]) <= 0 }

\* An access through a pointer that is not valid (freed, never set) is
\* undefined: the process dies, or the access goes through.
UbOutcomes == {"returns", "trap"}

\* micro_ga_sort: qsort on ga.individuals, with no check of ga.ready.
\* qsort touches nothing when there are fewer than two elements.
micro_ga_sort(outcome) ==
    /\ pc = "idle"
    /\ op' = "sort"
    /\ rc' = "none"
    /\ NoLocals
    /\ reported' = FALSE
    /\ scratch' = "none"
    /\ UNCHANGED << ga, blk >>
    /\ IF ga.population_size < 2
       THEN /\ fault' = "none"
            /\ UNCHANGED << individuals, pc >>
       ELSE IF ga.individuals = BLK /\ blk = "live"
       THEN /\ individuals' \in SortedPerms(individuals)
            /\ fault' = "none"
            /\ UNCHANGED pc
       ELSE IF ga.individuals = NULL
       THEN /\ fault' = "null_deref"
            /\ pc' = "crashed"
            /\ UNCHANGED individuals
       ELSE /\ fault' = IF ga.individuals = BLK THEN "use_after_free"
                        ELSE "wild_pointer"
            /\ IF outcome = "trap"
               THEN /\ pc' = "crashed"
                    /\ UNCHANGED individuals
               ELSE /\ individuals' \in SortedPerms(individuals)
                    /\ UNCHANGED pc

\* ------------------------------------------------------- micro_ga_evolve
\* The fitness loop: fitness_fn on every individual.
Evaluated(inds) ==
    [ i \in DOMAIN inds |-> [ inds[i] EXCEPT !.fitness = fitness_fn(inds[i].genes) ] ]

\* tfitness, the sum of all fitnesses.
TotalFitness(inds) == SumSeq([ i \in DOMAIN inds |-> inds[i].fitness ])

\* The cumulative distribution: prob[x] is the sum of fitness/tfitness over
\* the slots 0..x.  It is kept as the numerator over tfitness; tfitness = 0
\* makes every entry the NaN that 0.0/0.0 gives.
CumulativeProb(inds) ==
    [ x \in DOMAIN inds |-> SumSeq([ i \in 1 .. x |-> inds[i].fitness ]) ]

\* The comparison made strict: r < prob[x].
DrawLtProb(k, p, t) == t # 0 /\ k * t < p * RandDen

\* r <= prob[x] for the draw r = k/RandDen; a comparison with NaN is false.
DrawLeqProb(k, p, t) == t # 0 /\ k * t <= p * RandDen

\* The scan for one parent: the slot the loop writes into parents[], or
\* -1 when it ends without a write.
ScanParent(pr, t, k) ==
    LET hits == { x \in 0 .. Len(pr) - 1 : DrawLeqProb(k, pr[x + 1], t) }
    IN  IF hits = {} THEN -1
        ELSE CHOOSE x \in hits : \A y \in hits : x <= y

\* parents[] after the two scans of one pass of the roulette loop.
AttemptParents(pr, t, par, pc0, d1, d2) ==
    LET m == ScanParent(pr, t, d1)
        f == ScanParent(pr, t, d2)
    IN  [ i \in DOMAIN par |->
            IF i = pc0 + 1 /\ m >= 0 THEN m
            ELSE IF i = pc0 + 2 /\ f >= 0 THEN f
            ELSE par[i] ]

\* A step that replaces the individuals below the threshold only.
replace_below_thresh(g, inds) ==
    Cardinality({ i \in 1 .. g.population_size - 1 :
                    inds[i].fitness < g.fitness_thresh })

\* A step that also overwrites the fittest slot.
replace_all(g, inds) == g.population_size

\* replace, the number of individuals a step replaces.
replace(g, inds) == g.population_size - 1

EvolveAllocs == {"none", "prob", "parents", "children", "child_genes"}

\* micro_ga_evolve from its entry to the roulette loop: the asserts, the
\* fitness loop, the allocations, the report, the sort, prob[].
micro_ga_evolve(alloc) ==
    /\ pc = "idle"
    /\ op' = "evolve"
    /\ rc' = "none"
    /\ UNCHANGED << ga, blk >>
    /\ IF ga.ready # 1 \/ ga.fitness_fn = NULL
       THEN /\ pc' = "aborted"
            /\ fault' = "none"
            /\ reported' = FALSE
            /\ NoLocals
            /\ scratch' = "none"
            /\ UNCHANGED individuals
       ELSE IF ga.fitness_fn = WILD
       THEN /\ pc' = "crashed"
            /\ fault' = "wild_pointer"
            /\ reported' = FALSE
            /\ NoLocals
            /\ scratch' = "none"
            /\ UNCHANGED individuals
       ELSE IF alloc = "children"
       THEN /\ individuals' = Evaluated(individuals)
            /\ pc' = "crashed"
            /\ fault' = "null_deref"
            /\ reported' = FALSE
            /\ scratch' = alloc
            /\ NoLocals
       ELSE /\ individuals' \in SortedPerms(Evaluated(individuals))
            /\ reported' = (alloc \in {"prob", "parents"})
            /\ scratch' = alloc
            /\ n' = 0
            /\ pcount' = 0
            /\ tfitness' = TotalFitness(individuals')
            /\ IF alloc = "prob"
               THEN /\ pc' = "crashed"
                    /\ fault' = "null_deref"
                    /\ parents' = << >>
                    /\ prob' = << >>
               ELSE /\ pc' = "select"
                    /\ fault' = "none"
                    /\ parents' = [ i \in 1 .. 2 * ga.population_size |-> 0 ]
                    /\ prob' = CumulativeProb(individuals')

\* One pass of the roulette loop with the draws d1 and d2.
micro_ga_evolve_select(d1, d2) ==
    /\ pc = "select"
    /\ n < replace(ga, individuals)
    /\ UNCHANGED << engine, scratch, reported, op, rc >>
    /\ IF scratch = "parents"
       THEN /\ pc' = "crashed"
            /\ fault' = "null_deref"
            /\ UNCHANGED locals
       ELSE LET par == AttemptParents(prob, tfitness, parents, pcount, d1, d2)
            IN  /\ parents' = par
                /\ UNCHANGED << tfitness, prob >>
                /\ IF par[pcount + 1] # par[pcount + 2]
                   THEN n' = n + 1 /\ pcount' = pcount + 2
                   ELSE UNCHANGED << n, pcount >>
                /\ UNCHANGED << pc, fault >>

\* crossover, one gene: u decides between blending and copying, w is the
\* blend weight or the coin.  Every float operation rounds its result.
crossover(crossover_rate, mother, father, u, w) ==
    IF ToFloat(u) > crossover_rate
    THEN RoundDiv(ToFloat(w) * mother, FloatDen)
         + RoundDiv((FloatDen - ToFloat(w)) * father, FloatDen)
    ELSE IF 2 * ToFloat(w) > FloatDen THEN mother ELSE father

\* mutate, one gene: r decides, v is the new value.
mutate(mutation_rate, gene, r, v) ==
    IF r * FloatDen < mutation_rate * RandDen THEN ToFloat(v) ELSE gene

\* The values one gene of a child can get from the parents' genes m and f
\* under the rates cr and mr, over all draws of crossover and mutate.
GeneDraws(mr, cr, m, f) ==
    { mutate(mr, crossover(cr, m, f, d[1], d[2]), d[3], d[4])
      : d \in Draws \X Draws \X Draws \X Draws }

\* GeneDraws tabulated (@@ makes the function an explicit table).
GeneTable ==
    [ q \in Rates \X Rates \X GeneVals \X GeneVals |->
        GeneDraws(q[1], q[2], q[3], q[4]) ] @@ << >>

GeneOutcomes(g, m, f) ==
    GeneTable[<< g.mutation_rate, g.crossover_rate, m, f >>]

\* A crossover that leaves the child's genome_size as calloc zeroed it.
child_genome_size_unset(genome_size) == 0

\* The genome_size crossover gives the child.
child_genome_size(genome_size) == genome_size

\* The genes a child of mother and father can get.
ChildGenes(g, mother, father) ==
    { genes \in [ 1 .. g.genome_size -> GeneVals ] :
        \A j \in 1 .. g.genome_size :
            genes[j] \in GeneOutcomes(g, mother.genes[j], father.genes[j]) }

\* The staged children a step can breed: child k (C index) of mother
\* parents[2k] and father parents[2k+1], crossed over and mutated.
ChildrenOutcomes(g, inds, par) ==
    { ch \in [ 1 .. replace(g, inds) ->
                 [ genome_size : {child_genome_size(g.genome_size)},
                   fitness     : {Unevaluated},
                   genes       : [ 1 .. g.genome_size -> GeneVals ] ] ] :
        \A k \in DOMAIN ch :
            ch[k].genes \in ChildGenes(g, inds[par[2 * k - 1] + 1],
                                          inds[par[2 * k] + 1]) }

\* The replacement loop: genome_size first, then that many genes, then the
\* fitness marker.
Replaced(g, inds, ch) ==
    [ i \in DOMAIN inds |->
        IF i <= replace(g, inds)
        THEN [ genome_size |-> ch[i].genome_size,
               genes       |-> [ j \in DOMAIN inds[i].genes |->
                                   IF j <= ch[i].genome_size THEN ch[i].genes[j]
                                   ELSE inds[i].genes[j] ],
               fitness     |-> Unevaluated ]
        ELSE inds[i] ]

\* micro_ga_evolve after the roulette loop: breed, mutate, replace, free.
micro_ga_evolve_breed ==
    /\ pc = "select"
    /\ ~ (n < replace(ga, individuals))
    /\ UNCHANGED << ga, blk, reported, op, rc >>
    /\ IF scratch = "child_genes" /\ replace(ga, individuals) > 0
       THEN /\ pc' = "crashed"
            /\ fault' = "null_deref"
            /\ UNCHANGED << individuals, locals, scratch >>
       ELSE /\ \E ch \in ChildrenOutcomes(ga, individuals, parents) :
                 individuals' = Replaced(ga, individuals, ch)
            /\ pc' = "idle"
            /\ scratch' = "none"
            /\ NoLocals
            /\ UNCHANGED fault

\* ----------------------------------------------------------------- caller
\* main's loop over the population after a step: eval_fitness on every
\* individual.
main_eval_fitness ==
    /\ pc = "idle"
    /\ Ready
    /\ individuals' = Evaluated(individuals)
    /\ op' = "eval"
    /\ rc' = "none"
    /\ scratch' = "none"
    /\ reported' = FALSE
    /\ fault' = "none"
    /\ UNCHANGED << ga, blk, pc, locals >>

Next ==
    \/ \E call \in IF blk = "none" THEN InitCalls ELSE ReinitCalls :
         micro_ga_init(call[1], call[2], call[3])
    \/ population_init
    \/ micro_ga_init_return
    \/ \E args \in {"ok", "null"}, outcome \in UbOutcomes :
         micro_ga_destroy(args, outcome)
    \/ \E outcome \in UbOutcomes : micro_ga_sort(outcome)
    \/ \E alloc \in EvolveAllocs : micro_ga_evolve(alloc)
    \/ \E d1, d2 \in Draws : micro_ga_evolve_select(d1, d2)
    \/ micro_ga_evolve_breed
    \/ main_eval_fitness

Spec == Init /\ [][Next]_vars

\* The same program under fair draws: while rand() can give the roulette
\* loop a pair of draws that it accepts, it eventually gives one; and a
\* step whose loop has ended goes on.
LiveSpec ==
    /\ Init
    /\ [][Next]_vars
    /\ SF_vars(\E d1, d2 \in Draws :
                  micro_ga_evolve_select(d1, d2) /\ n' = n + 1)
    /\ WF_vars(micro_ga_evolve_breed)

\* ----------------------------------------------------------------- claims
\* C1 (elitism).  A step evaluates and ranks the population, so that the
\* genome of maximum fitness is in the last slot, changes nothing during
\* selection, and ends with that genome, genes and fitness, still in the
\* last slot.
Elitism ==
    [][ LET N == ga.population_size
        IN  /\ (pc = "idle" /\ pc' = "select") =>
                  /\ \A i \in 1 .. N : \E j \in 1 .. N :
                        /\ individuals'[j].genes = individuals[i].genes
                        /\ individuals'[j].fitness = SumSeq(individuals[i].genes)
                  /\ \A i \in 1 .. N :
                        individuals'[i].fitness <= individuals'[N].fitness
            /\ (pc = "select" /\ pc' = "select") => individuals' = individuals
            /\ (pc = "select" /\ pc' = "idle") =>
                  /\ individuals'[N] = individuals[N]
                  /\ \A i \in 1 .. N :
                        individuals[i].fitness <= individuals'[N].fitness
      ]_vars

\* A step has ended on a population of two or more: the last slot holds an
\* evaluated genome of positive fitness, the others have been replaced.
ElitismWitness ==
    /\ pc = "idle" /\ op = "evolve" /\ Ready
    /\ ga.population_size >= 2
    /\ individuals[ga.population_size].fitness > 0
    /\ \A i \in 1 .. ga.population_size - 1 :
          individuals[i].fitness = Unevaluated

\* C2 (size invariant).  While the engine is Ready the population holds
\* population_size genomes, each of genome_size genes and with genome_size
\* as its recorded length.
SizeInvariant ==
    Ready =>
      /\ Len(individuals) = ga.population_size
      /\ \A i \in DOMAIN individuals :
            /\ individuals[i].genome_size = ga.genome_size
            /\ Len(individuals[i].genes) = ga.genome_size

\* A step has replaced a genome of two genes.
SizeInvariantWitness ==
    /\ pc = "idle" /\ op = "evolve" /\ Ready
    /\ ga.population_size >= 2
    /\ ga.genome_size >= 2
    /\ individuals[1].fitness = Unevaluated


ConfigCheckFails(c) ==
    \/ c.population_size = 0
    \/ c.genome_size = 0
    \/ c.fitness_fn = NULL
    \/ c.mutation_rate < 0
    \/ c.crossover_rate < 0
    \/ c.fitness_thresh < 0

DestroyLifecycle ==
    [][ (pc = "idle" /\ op' = "destroy") =>
          /\ rc' = "0" => (Ready /\ ga'.ready # 1 /\ blk' = "freed")
          /\ ~ Ready => /\ rc' = "-1"
                        /\ pc' = "idle"
                        /\ fault' = "none"
                        /\ engine' = engine
      ]_vars

\* C5 (misuse is fatal), as stated.  A call of micro_ga_evolve or
\* micro_ga_sort on an engine that is not Ready ends in a failed assertion,
\* with no access to the population.
MisuseIsFatal ==
    [][ (pc = "idle" /\ op' \in {"evolve", "sort"} /\ ~ Ready) =>
          /\ pc' = "aborted"
          /\ fault' = "none"
          /\ individuals' = individuals
      ]_vars

\* C6 (allocation failure in a step), as stated.  When an allocation of
\* micro_ga_evolve fails, the failure is reported and the step returns with
\* the population as it was and no scratch buffer dereferenced.
AllocFailureAborts ==
    [][ (pc = "idle" /\ op' = "evolve" /\ scratch' # "none") =>
          /\ reported'
          /\ pc' = "idle"
          /\ fault' = "none"
          /\ individuals' = individuals
      ]_vars

FilterAccepts(genes) ==
    ga.acceptance_fn = NULL \/ acceptance_fn(genes) # 0

\* C8 (seeding with a filter).  A pass of the seeding loop redraws the genes
\* of slot n only; an accepted candidate moves the loop to the next slot, a
\* rejected one leaves it on the same slot (slot 0 included); with no
\* filter every pass moves on.  When micro_ga_init returns, every slot
\* holds an accepted genome with fitness -1.
SeedingFilter ==
    [][ /\ (pc = "seed" /\ pc' = "seed") =>
              /\ \A i \in DOMAIN individuals :
                    i # n + 1 => individuals'[i] = individuals[i]
              /\ individuals'[n + 1].fitness = Unevaluated
              /\ IF FilterAccepts(individuals'[n + 1].genes)
                 THEN n' = n + 1
                 ELSE n' = n
        /\ (pc = "seed" /\ pc' = "idle") =>
              /\ n = ga.population_size
              /\ Len(individuals') = ga.population_size
              /\ \A i \in DOMAIN individuals' :
                    /\ FilterAccepts(individuals'[i].genes)
                    /\ individuals'[i].fitness = Unevaluated
      ]_vars

\* The filter has turned down the candidate drawn for slot 0, slot 1 is
\* still to come.
SeedingFilterWitness ==
    /\ pc = "seed" /\ n = 0 /\ scratch = "none"
    /\ ga.acceptance_fn # NULL
    /\ ga.population_size >= 2
    /\ acceptance_fn(individuals[1].genes) = 0

\* The smallest rank i with r <= P[i] for the draw r = d/RandDen, P[i]
\* being the share of the slots 0..i in the total fitness.
SmallestRank(d) ==
    LET T    == SumSeq([ i \in DOMAIN individuals |-> individuals[i].fitness ])
        S(i) == SumSeq([ j \in 1 .. i + 1 |-> individuals[j].fitness ])
        ok   == { i \in 0 .. Len(individuals) - 1 : d * T <= S(i) * RandDen }
    IN  CHOOSE i \in ok : \A j \in ok : i <= j

\* C9 (parent selection).  A pass of the roulette loop that accepts a pair
\* leaves in it two distinct slots, each the smallest rank of its own draw
\* of that pass (whichever draw makes the scan leave that entry, the entry
\* is the draw's smallest rank), and changes no pair accepted before; the
\* pairs a step breeds from are pairs of distinct slots of the population.
ParentSelection ==
    [][ /\ (pc = "select" /\ pc' = "select" /\ n' = n + 1) =>
             /\ tfitness > 0
             /\ parents'[pcount + 1] # parents'[pcount + 2]
             /\ \A i \in 1 .. pcount : parents'[i] = parents[i]
             /\ LET rank == [ d \in Draws |-> SmallestRank(d) ]
                IN  \A d \in Draws :
                       LET par == AttemptParents(prob, tfitness, parents,
                                                 pcount, d, d)
                       IN  /\ parents'[pcount + 1] = par[pcount + 1] =>
                                 parents'[pcount + 1] = rank[d]
                           /\ parents'[pcount + 2] = par[pcount + 2] =>
                                 parents'[pcount + 2] = rank[d]
        /\ (pc = "select" /\ pc' = "idle") =>
             \A k \in 1 .. ga.population_size - 1 :
                /\ parents[2 * k - 1] # parents[2 * k]
                /\ parents[2 * k - 1] \in 0 .. ga.population_size - 1
                /\ parents[2 * k] \in 0 .. ga.population_size - 1
      ]_vars

\* One pair is accepted, and the attempt at the second pair was discarded:
\* both its entries hold the same slot, not the 0 of calloc.
ParentSelectionWitness ==
    /\ pc = "select" /\ scratch = "none"
    /\ pcount = 2 /\ n < ga.population_size - 1
    /\ parents[1] # parents[2]
    /\ parents[3] = parents[4] /\ parents[3] # 0

\* C10 (a step runs to completion), as stated.  Under fair draws the
\* roulette loop of a step whose allocations succeeded comes to its end and
\* the step returns.
StepTerminates ==
    (pc = "select" /\ scratch = "none") ~> (pc = "idle")

\* The smaller and the larger of two gene values.
Min2(a, b) == IF a <= b THEN a ELSE b
Max2(a, b) == IF a <= b THEN b ELSE a

\* C11 (recombination per gene), as stated.  When a step breeds, for every
\* pair of parents, every gene position and every pair of draws u and w:
\* on the blend path (u > crossover rate) the child's gene lies in the
\* closed interval between the parents' values for that gene, on the copy
\* path it equals the mother's or the father's value; and the step leaves
\* in each replaced slot a child of the configured length whose fitness is
\* -1 and whose genes were bred from the parents as they stood before
\* the step.
RecombinationPerGene ==
    [][ (pc = "select" /\ pc' = "idle") =>
          \A k \in 1 .. ga.population_size - 1 :
             LET mother == individuals[parents[2 * k - 1] + 1]
                 father == individuals[parents[2 * k] + 1]
             IN  /\ individuals'[k].fitness = Unevaluated
                 /\ individuals'[k].genome_size = mother.genome_size
                 /\ Len(individuals'[k].genes) = Len(mother.genes)
                 /\ \A j \in 1 .. ga.genome_size :
                       LET m == mother.genes[j]
                           f == father.genes[j]
                       IN  /\ individuals'[k].genes[j] \in
                                 GeneDraws(ga.mutation_rate, ga.crossover_rate, m, f)
                           /\ \A u, w \in Draws :
                                 LET gene == crossover(ga.crossover_rate, m, f, u, w)
                                 IN  IF ToFloat(u) > ga.crossover_rate
                                     THEN /\ Min2(m, f) <= gene
                                          /\ gene <= Max2(m, f)
                                     ELSE gene \in {m, f}
      ]_vars

=============================================================================
